---- MODULE Spec2Model ----
(***************************************************************************)
(* A model of the prompt library: Prompt.render, PromptManager._load_all,  *)
(* PromptTester.test_prompt and PromptTester.test_batch.                   *)
(*                                                                         *)
(* Text is modelled as a sequence of one-character strings, so that        *)
(* str.replace, str.strip, str.split, str.lower and the `in` test on       *)
(* strings are computed as Python computes them.                           *)
(***************************************************************************)
EXTENDS Integers, Sequences, FiniteSets, TLC

VARIABLES
    \* ---- Prompt.render (one call) ----
    rec,        \* the Prompt the call is made on: [template, parameters]
    template0,  \* the template of rec when the call started
    kwargs,     \* the keyword arguments of the call: name -> value
    text,       \* render's local `text`
    ridx,       \* position of the `for param in self.parameters` loop
    rpc,        \* "loop" | "returned" | "raised"
    rout,       \* what the call gave back: the text, or the exception
    \* ---- PromptManager.__init__ / _load_all ----
    fs,         \* the files under prompts_dir: path -> raw file
    rootExists, \* prompts_dir.exists()
    pending,    \* the paths rglob has not yielded yet
    order,      \* the paths in the order rglob yielded them
    cache,      \* self._cache: its items [key, value] in insertion order
    lpc,        \* "start" | "loop" | "done" | "aborted"
    \* ---- PromptTester ----
    api_key,    \* self.api_key ("" models None / empty)
    client,     \* self._client is not None
    tdir,       \* the files under the tested directory: path -> raw file
    tcall,      \* the last direct call of test_prompt, with its outcome
    network,    \* the generate_content requests sent by the call, in order
    bmodel,     \* test_batch's `model` argument
    bpc,        \* "idle" | "loop" | "returned" | "aborted"
    bidx,       \* position of test_batch's loop over the sorted paths
    results,    \* test_batch's local `results`
    batch,      \* the BatchTestResult test_batch returned (or NoBatch)
    scall,      \* the last call of _score_quality, with its score
    vcall,      \* the last call of validate_prompt_format, with its outcome
    \* ---- PromptManager queries ----
    qcall,      \* the last query made on the manager, with what it returned
    listed      \* what the calls of list_prompts returned, oldest first

vars == << rec, template0, kwargs, text, ridx, rpc, rout,
           fs, rootExists, pending, order, cache, lpc,
           api_key, client, tdir, tcall, network, bmodel, bpc, bidx, results, batch,
           scall, vcall, qcall, listed >>

renderVars == << rec, template0, kwargs, text, ridx, rpc, rout >>
loadVars   == << fs, rootExists, pending, order, cache, lpc >>
testVars   == << api_key, client, tdir, tcall, network, bmodel, bpc, bidx, results, batch >>
toolVars   == << scall, vcall, qcall, listed >>

(***************************************************************************)
(* Text                                                                    *)
(***************************************************************************)

\* The empty string.
Empty == << >>

\* Python's whitespace test for the characters the model uses.
IsSpace(c) == c \in {" ", "\n"}

\* str.lower on one character.
LowerChar(c) ==
    CASE c = "K" -> "k"
      [] c = "T" -> "t"
      [] OTHER   -> c

\* str.lower
Lower(s) == [i \in 1..Len(s) |-> LowerChar(s[i])]

\* `sub in s` for strings
Contains(s, sub) ==
    \E i \in 0..(Len(s) - Len(sub)) : \A j \in 1..Len(sub) : s[i + j] = sub[j]

\* `s.strip()` is empty
StripEmpty(s) == \A i \in 1..Len(s) : IsSpace(s[i])

\* len(s.split()): the number of maximal runs of non-whitespace
WordCount(s) ==
    Cardinality({i \in 1..Len(s) :
                    /\ ~IsSpace(s[i])
                    /\ (i = 1 \/ IsSpace(s[i - 1]))})

\* s.replace(old, new), old non-empty: leftmost occurrences, not overlapping
RECURSIVE Replace(_, _, _)
Replace(s, old, new) ==
    IF Len(s) < Len(old) THEN s
    ELSE IF SubSeq(s, 1, Len(old)) = old
         THEN new \o Replace(SubSeq(s, Len(old) + 1, Len(s)), old, new)
         ELSE << s[1] >> \o Replace(Tail(s), old, new)

\* f"{{{key}}}"
Placeholder(key) == << "{" >> \o key \o << "}" >>

\* Number of (possibly overlapping) places where sub occurs in s.
Occurrences(s, sub) ==
    Cardinality({i \in 0..(Len(s) - Len(sub)) : \A j \in 1..Len(sub) : s[i + j] = sub[j]})

(***************************************************************************)
(* Values: a Python value is [t, s], t its type and s its str() form.      *)
(***************************************************************************)

StrVal(s) == [t |-> "str", s |-> s]
IntVal(s) == [t |-> "int", s |-> s]

\* str(v)
PyStr(v) == v.s

\* An optional value: None, or Some(v).
None    == [some |-> FALSE, v |-> StrVal(Empty)]
Some(x) == [some |-> TRUE, v |-> x]

(***************************************************************************)
(* Prompt.render                                                           *)
(***************************************************************************)

\* PromptParameter(name, required, default); default is a str or None.
Param(n, r, d) == [name |-> n, required |-> r, default |-> d]

\* `key in kwargs`
Supplied(param, kw) == param.name \in DOMAIN kw

\* A broken elif: a required parameter raises although it has a default.
MissingRequiredIgnoringDefault(param, kw) ==
    /\ ~Supplied(param, kw)
    /\ param.required

\* The branch of the loop body that raises ValueError.
MissingRequired(param, kw) ==
    /\ ~Supplied(param, kw)
    /\ param.required
    /\ ~param.default.some

\* A broken loop body: the default wins over the supplied value.
ParamTextDefaultFirst(t, param, kw) ==
    IF param.default.some
    THEN Replace(t, Placeholder(param.name), param.default.v.s)
    ELSE IF Supplied(param, kw)
         THEN Replace(t, Placeholder(param.name), PyStr(kw[param.name]))
         ELSE t

\* The loop body's new value of `text`, in the branches that do not raise.
ParamText(t, param, kw) ==
    IF Supplied(param, kw)
    THEN Replace(t, Placeholder(param.name), PyStr(kw[param.name]))
    ELSE IF param.default.some
         THEN Replace(t, Placeholder(param.name), param.default.v.s)
         ELSE t

NoOut          == [kind |-> "none", text |-> Empty, name |-> Empty]
Returned(t)    == [kind |-> "text", text |-> t, name |-> Empty]
\* ValueError(f"Missing required parameter: {key}")
ValueErrorMissing(key) == [kind |-> "ValueError", text |-> Empty, name |-> key]

\* One pass of the loop body that does not raise.
RenderStep ==
    /\ rpc = "loop"
    /\ ridx <= Len(rec.parameters)
    /\ ~MissingRequired(rec.parameters[ridx], kwargs)
    /\ text' = ParamText(text, rec.parameters[ridx], kwargs)
    /\ ridx' = ridx + 1
    /\ UNCHANGED << rec, template0, kwargs, rpc, rout >>
    /\ UNCHANGED << loadVars, testVars >>
    /\ UNCHANGED toolVars

\* The pass of the loop body that raises: nothing is returned.
RenderRaise ==
    /\ rpc = "loop"
    /\ ridx <= Len(rec.parameters)
    /\ MissingRequired(rec.parameters[ridx], kwargs)
    /\ rpc' = "raised"
    /\ rout' = ValueErrorMissing(rec.parameters[ridx].name)
    /\ UNCHANGED << rec, template0, kwargs, text, ridx >>
    /\ UNCHANGED << loadVars, testVars >>
    /\ UNCHANGED toolVars

\* return text
RenderReturn ==
    /\ rpc = "loop"
    /\ ridx > Len(rec.parameters)
    /\ rpc' = "returned"
    /\ rout' = Returned(text)
    /\ UNCHANGED << rec, template0, kwargs, text, ridx >>
    /\ UNCHANGED << loadVars, testVars >>
    /\ UNCHANGED toolVars

\* ---- the calls of render the model explores ----

MaxPieces == 2

NameA == << "a" >>
NameB == << "b" >>
Names == {NameA, NameB}

Pieces == { Placeholder(NameA), Placeholder(NameB), << "{" >>, << "}" >>, << "b" >> }

RECURSIVE Concat(_)
Concat(ss) == IF ss = << >> THEN Empty ELSE Head(ss) \o Concat(Tail(ss))

Templates ==
    { Concat(ps) : ps \in UNION { [1..n -> Pieces] : n \in 0..MaxPieces } }

Defaults == { None, Some(StrVal(<< "d" >>)), Some(StrVal(Placeholder(NameB))) }

ParamsNamed(n) == { Param(n, r, d) : r \in BOOLEAN, d \in Defaults }

\* Parameter lists with names unique within the record.
ParamLists ==
    { << >> }
    \cup { << p >> : p \in ParamsNamed(NameA) \cup ParamsNamed(NameB) }
    \cup { << p, q >> : p \in ParamsNamed(NameA), q \in ParamsNamed(NameB) }
    \cup { << q, p >> : p \in ParamsNamed(NameA), q \in ParamsNamed(NameB) }

KwValues == { StrVal(<< "v" >>), StrVal(Placeholder(NameB)), IntVal(<< "7" >>) }

Kwargs == UNION { [D -> KwValues] : D \in SUBSET Names }

\* No call of render is in progress.
RenderIdle ==
    /\ rec = [template |-> Empty, parameters |-> << >>]
    /\ template0 = Empty
    /\ kwargs = << >>
    /\ text = Empty
    /\ ridx = 1
    /\ rpc = "idle"
    /\ rout = NoOut

\* No PromptManager has been constructed.
LoadIdle ==
    /\ fs = << >>
    /\ rootExists = FALSE
    /\ pending = {}
    /\ order = << >>
    /\ cache = << >>
    /\ lpc = "idle"

\* render is entered: text = self.template
RenderInit ==
    /\ rec \in [template : Templates, parameters : ParamLists]
    /\ template0 = rec.template
    /\ kwargs \in Kwargs
    /\ text = rec.template
    /\ ridx = 1
    /\ rpc = "loop"
    /\ rout = NoOut

RenderNext == RenderStep \/ RenderRaise \/ RenderReturn

(***************************************************************************)
(* Record files.  A file is what path.read_text() and yaml.safe_load make  *)
(* of it: unreadable, not YAML, a YAML value that is no mapping, or a      *)
(* mapping.  `has` holds the keys the mapping contains; the field of a key *)
(* it does not contain is never read.                                      *)
(***************************************************************************)

DefaultModel == << "g" >>          \* "gemini-2.5-flash-lite"
DefaultExpectedTokens == 500
DefaultMaxOutputTokens == 1024
DefaultTemperature == "0.7"
DefaultCategory == << "u" >>       \* "uncategorized"

RawMeta(h, m, n) ==
    [is_map |-> TRUE, has |-> h, recommended_model |-> m, expected_tokens |-> n,
     max_tokens |-> DefaultMaxOutputTokens, temperature |-> DefaultTemperature,
     tags |-> << >>]

\* `metadata: 3`, `metadata: null`, ...: a value with no .get
MetaNotMapping == [RawMeta({}, StrVal(Empty), 0) EXCEPT !.is_map = FALSE]

RawParam(h, n, r, d) == [has |-> h, name |-> n, required |-> r, default |-> d]

RawExample(h, i, e) == [has |-> h, input |-> i, expected_output_contains |-> e]

RawMapping(h, n, t, c, ps, m, es) ==
    [kind |-> "mapping", has |-> h, name |-> n, template |-> t, category |-> c,
     parameters |-> ps, metadata |-> m, examples |-> es,
     description |-> StrVal(Empty)]

RawOther(k) ==
    [RawMapping({}, StrVal(Empty), StrVal(Empty), StrVal(Empty), << >>,
                RawMeta({}, StrVal(Empty), 0), << >>) EXCEPT !.kind = k]

Unreadable  == RawOther("unreadable")     \* read_text raises OSError
InvalidYaml == RawOther("invalid_yaml")   \* safe_load raises YAMLError
NotMapping  == RawOther("not_mapping")    \* a list, a scalar, an empty file

\* The file of path p is named f"{p}.yaml"; paths sort by their number.
Stem(p) == StrVal(<< CASE p = 1 -> "1" [] p = 2 -> "2" [] p = 3 -> "3"
                       [] p = 4 -> "4" [] OTHER -> "5" >>)

(***************************************************************************)
(* PromptManager._load_prompt and _load_all                                *)
(***************************************************************************)

Raise(e)  == [ok |-> FALSE, exc |-> e, prompt |-> [name |-> StrVal(Empty)]]
Ok(p)     == [ok |-> TRUE, exc |-> "", prompt |-> p]

\* PromptParameter(name=p["name"], required=p.get("required", True),
\*                 default=p.get("default"))
LoadParam(p) ==
    Param(p.name,
          IF "required" \in p.has THEN p.required ELSE TRUE,
          IF "default" \in p.has THEN Some(p.default) ELSE None)

\* PromptMetadata(recommended_model=meta_data.get(...), expected_tokens=...)
LoadMetadata(f) ==
    LET m == f.metadata
        h == IF "metadata" \in f.has THEN m.has ELSE {}
    IN  [recommended_model |->
             IF "recommended_model" \in h THEN m.recommended_model
                                          ELSE StrVal(DefaultModel),
         expected_tokens |->
             IF "expected_tokens" \in h THEN m.expected_tokens
                                        ELSE DefaultExpectedTokens,
         tags |-> IF "tags" \in h THEN m.tags ELSE << >>]

\* _load_prompt(path): the Prompt, or the exception it raises.
LoadPrompt(path, f) ==
    IF f.kind = "unreadable" THEN Raise("OSError")
    ELSE IF f.kind = "invalid_yaml" THEN Raise("YAMLError")
    ELSE IF f.kind = "not_mapping" THEN Raise("AttributeError")
    ELSE IF /\ "parameters" \in f.has
            /\ \E i \in 1..Len(f.parameters) : "name" \notin f.parameters[i].has
         THEN Raise("KeyError")
    ELSE IF "metadata" \in f.has /\ ~f.metadata.is_map THEN Raise("AttributeError")
    ELSE IF "name" \notin f.has THEN Raise("KeyError")
    ELSE Ok([name |-> f.name,
             category |-> IF "category" \in f.has THEN f.category
                                                  ELSE StrVal(DefaultCategory),
             description |-> IF "description" \in f.has THEN f.description
                                                        ELSE StrVal(Empty),
             template |-> IF "template" \in f.has THEN f.template
                                                  ELSE StrVal(Empty),
             parameters |-> IF "parameters" \in f.has
                            THEN [i \in 1..Len(f.parameters) |->
                                     LoadParam(f.parameters[i])]
                            ELSE << >>,
             metadata |-> LoadMetadata(f),
             file_path |-> path])

\* hash(key) works: a str or an int, not a list.
Hashable(key) == key.t \in {"str", "int"}

\* The try block of _load_all: _load_prompt, then the dict assignment.
TryLoad(path, f) ==
    LET r == LoadPrompt(path, f)
    IN  IF r.ok /\ ~Hashable(r.prompt.name) THEN Raise("TypeError") ELSE r

\* `except Exception` narrowed to the parser's errors.
CaughtYamlOnly(e) == e = "YAMLError"

\* `except Exception`: every exception the try block can raise derives from it.
Caught(e) == e \in {"OSError", "YAMLError", "AttributeError", "KeyError", "TypeError"}

Item(k, v) == [key |-> k, value |-> v]

Keys(d) == {d[i].key : i \in 1..Len(d)}

\* dict.setdefault instead of assignment: the first record of a name is kept.
DictSetKeepFirst(d, k, v) ==
    IF k \in Keys(d) THEN d ELSE Append(d, Item(k, v))

\* d[k] = v on a dict kept as its items in insertion order.
DictSet(d, k, v) ==
    IF k \in Keys(d)
    THEN [i \in 1..Len(d) |-> IF d[i].key = k THEN Item(k, v) ELSE d[i]]
    ELSE Append(d, Item(k, v))

\* __init__ with a prompts_dir that does not exist: _load_all returns at once.
LoadRootAbsent ==
    /\ lpc = "start"
    /\ ~rootExists
    /\ lpc' = "done"
    /\ UNCHANGED << fs, rootExists, pending, order, cache >>
    /\ UNCHANGED << renderVars, testVars >>
    /\ UNCHANGED toolVars

\* __init__ with a prompts_dir that exists: rglob starts.
LoadBegin ==
    /\ lpc = "start"
    /\ rootExists
    /\ lpc' = "loop"
    /\ pending' = DOMAIN fs
    /\ UNCHANGED << fs, rootExists, order, cache >>
    /\ UNCHANGED << renderVars, testVars >>
    /\ UNCHANGED toolVars

\* rglob yields a file that loads: self._cache[prompt.name] = prompt
LoadInsert ==
    /\ lpc = "loop"
    /\ \E path \in pending :
          LET r == TryLoad(path, fs[path])
          IN  /\ r.ok
              /\ cache' = DictSet(cache, r.prompt.name, r.prompt)
              /\ pending' = pending \ {path}
              /\ order' = Append(order, path)
    /\ UNCHANGED << fs, rootExists, lpc >>
    /\ UNCHANGED << renderVars, testVars >>
    /\ UNCHANGED toolVars

\* rglob yields a file the try block fails on: except Exception: continue
LoadSkip ==
    /\ lpc = "loop"
    /\ \E path \in pending :
          LET r == TryLoad(path, fs[path])
          IN  /\ ~r.ok
              /\ lpc' = IF Caught(r.exc) THEN "loop" ELSE "aborted"
              /\ pending' = pending \ {path}
              /\ order' = Append(order, path)
    /\ UNCHANGED << fs, rootExists, cache >>
    /\ UNCHANGED << renderVars, testVars >>
    /\ UNCHANGED toolVars

\* rglob is exhausted: _load_all and __init__ return.
LoadDone ==
    /\ lpc = "loop"
    /\ pending = {}
    /\ lpc' = "done"
    /\ UNCHANGED << fs, rootExists, pending, order, cache >>
    /\ UNCHANGED << renderVars, testVars >>
    /\ UNCHANGED toolVars

LoadNext == LoadRootAbsent \/ LoadBegin \/ LoadInsert \/ LoadSkip \/ LoadDone

\* ---- the directories the model loads ----

MaxFiles == 3

NameFoo == StrVal(<< "f" >>)
NameBar == StrVal(<< "r" >>)
NameUnhashable == [t |-> "list", s |-> << "[", "]" >>]

TemplateA == StrVal(<< "S", " " >> \o Placeholder(NameA))
Blank     == StrVal(<< " " >>)
CatS      == StrVal(<< "s" >>)

GoodMeta == RawMeta({"recommended_model", "expected_tokens"}, StrVal(<< "m" >>), 100)
BadMeta  == RawMeta({"recommended_model", "expected_tokens"}, StrVal(Empty), 0)

NamedParam   == RawParam({"name"}, NameA, TRUE, StrVal(Empty))
UnnamedParam == RawParam({"required"}, Empty, FALSE, StrVal(Empty))

AllKeys == {"name", "template", "category", "parameters", "metadata", "examples"}

LoadFiles ==
    { Unreadable, InvalidYaml, NotMapping,
      \* no name
      RawMapping({"template", "category"}, NameFoo, TemplateA, CatS, << >>, GoodMeta, << >>),
      \* a parameter without a name
      RawMapping(AllKeys, NameFoo, TemplateA, CatS, << NamedParam, UnnamedParam >>,
                 GoodMeta, << >>),
      \* metadata that is no mapping
      RawMapping(AllKeys, NameBar, TemplateA, CatS, << >>, MetaNotMapping, << >>),
      \* a name that cannot be a dict key
      RawMapping(AllKeys, NameUnhashable, TemplateA, CatS, << >>, GoodMeta, << >>),
      \* well-formed records
      RawMapping(AllKeys, NameFoo, TemplateA, CatS, << NamedParam >>, GoodMeta, << >>),
      RawMapping(AllKeys, NameBar, TemplateA, CatS, << >>, GoodMeta, << >>),
      \* name only: every other field takes its default
      RawMapping({"name"}, NameFoo, TemplateA, CatS, << >>, GoodMeta, << >>),
      \* blank template, empty model, zero tokens
      RawMapping(AllKeys, NameBar, Blank, CatS, << >>, BadMeta, << >>) }

LoadInit ==
    /\ rootExists \in BOOLEAN
    /\ fs \in IF rootExists
              THEN UNION { [1..n -> LoadFiles] : n \in 0..MaxFiles }
              ELSE { << >> }
    /\ pending = {}
    /\ order = << >>
    /\ cache = << >>
    /\ lpc = "start"

(***************************************************************************)
(* PromptTester                                                            *)
(***************************************************************************)

\* Scores are counted in quarter points: Score(5, 0) is 5.0, Score(0, 2) is 0.5.
\* The keyword bonus (n - m) / n * 3.0 is exact in quarter points for n in
\* 1, 2, 3, 4, 6, 12.
Score(whole, quarters) == 4 * whole + quarters

StructureMarkers == { << "-", " " >>, << "*", " " >>, << "1", "." >>, << "#", "#", " " >> }

\* A broken keyword bonus: the share of missing keywords is rewarded.
ScoreQualityMissingShare(output, expected, missing) ==
    IF StripEmpty(output) THEN Score(0, 0)
    ELSE LET words  == WordCount(output)
             len1   == IF words >= 50 THEN Score(1, 0) ELSE 0
             len2   == IF words >= 200 THEN Score(0, 2) ELSE 0
             match  == IF expected # << >>
                       THEN (Score(3, 0) * Len(missing)) \div Len(expected)
                       ELSE 0
             struct == IF \E m \in StructureMarkers : Contains(output, m)
                       THEN Score(0, 2) ELSE 0
             score  == Score(5, 0) + len1 + len2 + match + struct
         IN  IF score < Score(10, 0) THEN score ELSE Score(10, 0)

\* A broken empty test: `if not output` instead of `if not output.strip()`.
ScoreQualityNoStrip(output, expected, missing) ==
    IF output = Empty THEN Score(0, 0)
    ELSE LET words  == WordCount(output)
             len1   == IF words >= 50 THEN Score(1, 0) ELSE 0
             len2   == IF words >= 200 THEN Score(0, 2) ELSE 0
             match  == IF expected # << >>
                       THEN (Score(3, 0) * (Len(expected) - Len(missing)))
                                \div Len(expected)
                       ELSE 0
             struct == IF \E m \in StructureMarkers : Contains(output, m)
                       THEN Score(0, 2) ELSE 0
             score  == Score(5, 0) + len1 + len2 + match + struct
         IN  IF score < Score(10, 0) THEN score ELSE Score(10, 0)

\* _score_quality(output, expected, missing), in quarter points
ScoreQuality(output, expected, missing) ==
    IF StripEmpty(output) THEN Score(0, 0)
    ELSE LET base   == Score(5, 0)
             words  == WordCount(output)
             len1   == IF words >= 50 THEN Score(1, 0) ELSE 0
             len2   == IF words >= 200 THEN Score(0, 2) ELSE 0
             match  == IF expected # << >>
                       THEN (Score(3, 0) * (Len(expected) - Len(missing)))
                                \div Len(expected)
                       ELSE 0
             struct == IF \E m \in StructureMarkers : Contains(output, m)
                       THEN Score(0, 2) ELSE 0
             score  == base + len1 + len2 + match + struct
         IN  IF score < Score(10, 0) THEN score ELSE Score(10, 0)

\* [kw for kw in expected_contains if kw.lower() not in output.lower()]
RECURSIVE MissingKeywords(_, _)
MissingKeywords(expected, output) ==
    IF expected = << >> THEN << >>
    ELSE LET rest == MissingKeywords(Tail(expected), output)
         IN  IF Contains(Lower(output), Lower(Head(expected)))
             THEN rest
             ELSE << Head(expected) >> \o rest

NoError    == [some |-> FALSE, v |-> ""]
ErrorOf(e) == [some |-> TRUE, v |-> e]

\* The message of the ValueError _get_client raises.
KeyNotSet == "GEMINI_API_KEY not set. Pass api_key or set GEMINI_API_KEY env var."

\* A broken _get_client: the client is built without looking at the key.
GetClientUnchecked(key, hasClient) == [exc |-> "", msg |-> "", client |-> TRUE]

\* _get_client(): the client, built on first use, or ValueError without a key
GetClient(key, hasClient) ==
    IF hasClient THEN [exc |-> "", msg |-> "", client |-> TRUE]
    ELSE IF key = "" THEN [exc |-> "ValueError", msg |-> KeyNotSet, client |-> FALSE]
    ELSE [exc |-> "", msg |-> "", client |-> TRUE]

TestResult(name, input, output, quality, latency, tokens, passed, expected, missing, error) ==
    [prompt_name |-> name, test_input |-> input, output |-> output,
     quality_score |-> quality, latency_ms |-> latency, token_count |-> tokens,
     passed |-> passed, expected_contains |-> expected,
     missing_keywords |-> missing, error |-> error]

NoResult ==
    TestResult(StrVal(Empty), << >>, Empty, 0, 0, 0, FALSE, << >>, << >>, NoError)

\* A broken except branch: the failure's description is replaced by a fixed text.
ErrorResultGeneric(name, input, msg) ==
    TestResult(name, input, Empty, 0, 0, 0, FALSE, << >>, << >>, ErrorOf("error"))

\* The TestResult of the except branch; msg is str(e).
ErrorResult(name, input, msg) ==
    TestResult(name, input, Empty, 0, 0, 0, FALSE, << >>, << >>, ErrorOf(msg))

\* The TestResult of the try branch.
SuccessResult(name, input, output, latency, expected) ==
    LET missing == MissingKeywords(expected, output)
    IN  TestResult(name, input, output,
                   ScoreQuality(output, expected, missing),
                   latency, WordCount(output),
                   Len(missing) = 0 /\ ~StripEmpty(output),
                   expected, missing, NoError)

\* for key, value in input_data.items(): rendered = rendered.replace(...)
RECURSIVE RenderRaw(_, _)
RenderRaw(t, items) ==
    IF items = << >> THEN [exc |-> "", text |-> t]
    ELSE IF Head(items).value.t # "str" THEN [exc |-> "TypeError", text |-> t]
    ELSE RenderRaw(Replace(t, Placeholder(Head(items).key), Head(items).value.s),
                   Tail(items))

\* `if x:` on an optional list, dict or str
Truthy(opt) == opt.some /\ opt.v # << >>

Propagated(e) ==
    [raised |-> e, result |-> NoResult, sent |-> << >>, client |-> FALSE]

Request(path, model, contents, temperature, max_output_tokens) ==
    [from |-> path, model |-> model, contents |-> contents,
     temperature |-> temperature, max_output_tokens |-> max_output_tokens]

\* `if test_input:` (and `not test_input` two lines below)
InputGiven(test_input) == Truthy(test_input)

\* test_prompt(path, test_input, model) on file f, with the service answering
\* svc after `latency` ms: the exception that leaves the call, or the
\* TestResult it returns, the requests it sent and self._client after it.
TestPrompt(path, f, test_input, model, key, hasClient, svc, latency) ==
    IF f.kind = "unreadable" THEN [Propagated("OSError") EXCEPT !.client = hasClient]
    ELSE IF f.kind = "invalid_yaml"
         THEN [Propagated("YAMLError") EXCEPT !.client = hasClient]
    ELSE IF f.kind = "not_mapping"
         THEN [Propagated("AttributeError") EXCEPT !.client = hasClient]
    ELSE IF "metadata" \in f.has /\ ~f.metadata.is_map
         THEN [Propagated("AttributeError") EXCEPT !.client = hasClient]
    ELSE
    LET prompt_name == IF "name" \in f.has THEN f.name ELSE Stem(path)
        template    == IF "template" \in f.has THEN f.template ELSE StrVal(Empty)
        mhas        == IF "metadata" \in f.has THEN f.metadata.has ELSE {}
        examples    == IF "examples" \in f.has THEN f.examples ELSE << >>
        model_name  == IF Truthy(model) THEN model.v
                       ELSE IF "recommended_model" \in mhas
                            THEN f.metadata.recommended_model.s
                            ELSE DefaultModel
        temperature == IF "temperature" \in mhas THEN f.metadata.temperature
                                                 ELSE DefaultTemperature
        max_tokens  == IF "max_tokens" \in mhas THEN f.metadata.max_tokens
                                                ELSE DefaultMaxOutputTokens
        input_data  == IF InputGiven(test_input) THEN test_input.v
                       ELSE IF examples # << >>
                            THEN IF "input" \in examples[1].has
                                 THEN examples[1].input ELSE << >>
                            ELSE << >>
        expected    == IF examples # << >> /\ ~InputGiven(test_input)
                       THEN IF "expected_output_contains" \in examples[1].has
                            THEN examples[1].expected_output_contains ELSE << >>
                       ELSE << >>
        rendered    == RenderRaw(template.s, input_data)
        got         == GetClient(key, hasClient)
    IN  IF input_data # << >> /\ template.t # "str"
        THEN [Propagated("AttributeError") EXCEPT !.client = hasClient]
        ELSE IF rendered.exc # ""
        THEN [Propagated(rendered.exc) EXCEPT !.client = hasClient]
        ELSE IF got.exc # ""
        THEN [raised |-> "", sent |-> << >>, client |-> got.client,
              result |-> ErrorResult(prompt_name, input_data, got.msg)]
        ELSE LET req == Request(path, model_name, rendered.text, temperature, max_tokens)
             IN  IF svc.kind = "error"
                 THEN [raised |-> "", sent |-> << req >>, client |-> got.client,
                       result |-> ErrorResult(prompt_name, input_data, svc.error)]
                 ELSE [raised |-> "", sent |-> << req >>, client |-> got.client,
                       result |-> SuccessResult(prompt_name, input_data,
                                     IF svc.kind = "text" THEN svc.text ELSE Empty,
                                     latency, expected)]

\* ---- the files, inputs and service answers the model explores ----

MaxBatchFiles == 2

KwK == << "k" >>
KwT == << "t" >>

TemplateAB == StrVal(Placeholder(NameA) \o Placeholder(NameB))

ExampleA  == RawExample({"input", "expected_output_contains"},
                        << Item(NameA, StrVal(<< "v" >>)) >>, << KwK >>)
\* the value of a holds the placeholder of b, and b comes second
ExampleAB == RawExample({"input", "expected_output_contains"},
                        << Item(NameA, StrVal(Placeholder(NameB))),
                           Item(NameB, StrVal(<< "v" >>)) >>, << KwK, KwT >>)
\* `input: {a: 7}`: a value that is no str
ExampleInt == RawExample({"input"}, << Item(NameA, IntVal(<< "7" >>)) >>, << >>)
ExampleBare == RawExample({}, << >>, << >>)

TestFiles ==
    { Unreadable, InvalidYaml, NotMapping,
      RawMapping(AllKeys, NameBar, TemplateA, CatS, << >>, MetaNotMapping, << >>),
      RawMapping(AllKeys, NameFoo, TemplateA, CatS, << NamedParam >>, GoodMeta,
                 << ExampleA >>),
      RawMapping(AllKeys, NameBar, TemplateAB, CatS, << >>, GoodMeta,
                 << ExampleAB, ExampleA >>),
      RawMapping(AllKeys, NameFoo, TemplateA, CatS, << >>, GoodMeta, << ExampleInt >>),
      RawMapping(AllKeys, NameBar, IntVal(<< "7" >>), CatS, << >>, GoodMeta,
                 << ExampleA >>),
      RawMapping({"template", "examples"}, NameFoo, TemplateAB, CatS, << >>, GoodMeta,
                 << ExampleBare >>),
      RawMapping({"template"}, NameFoo, TemplateA, CatS, << >>, GoodMeta, << >>) }

NoInput == [some |-> FALSE, v |-> << >>]

TestInputs ==
    { NoInput,
      Some(<< >>),
      Some(<< Item(NameA, StrVal(<< "w" >>)) >>),
      Some(<< Item(NameB, StrVal(<< "w" >>)), Item(NameA, StrVal(Placeholder(NameB))) >>) }

NoModel == [some |-> FALSE, v |-> << >>]

Models == { NoModel, Some(<< "o" >>) }

\* n words, each followed by a blank
Words(n) == [i \in 1..(2 * n) |-> IF i % 2 = 1 THEN "w" ELSE " "]

ServiceText(t)  == [kind |-> "text", text |-> t, error |-> ""]
ServiceNoText   == [kind |-> "no_text", text |-> Empty, error |-> ""]
ServiceError(e) == [kind |-> "error", text |-> Empty, error |-> e]

Outputs ==
    { << " ", "\n" >>,
      << "K" >>,
      << "-", " ", "t", " ", "K" >>,
      Words(50) \o << "#", "#", " ", "T", "k" >> }

Services ==
    { ServiceText(o) : o \in Outputs }
    \cup { ServiceNoText, ServiceError("429 quota exceeded"), ServiceError("timed out") }

BatchServices ==
    { ServiceText(<< "-", " ", "t", " ", "K" >>), ServiceText(<< "K" >>),
      ServiceNoText, ServiceError("429 quota exceeded") }

Latencies == { 3, 8 }

NoCall ==
    [made |-> FALSE, path |-> 0, test_input |-> NoInput, model |-> NoModel,
     svc |-> [kind |-> "none", text |-> Empty, error |-> ""],
     had_client |-> FALSE, raised |-> "", result |-> NoResult]

\* A direct call tester.test_prompt(path, test_input, model), start to end.
TestCall ==
    /\ bpc = "idle"
    /\ \E path \in DOMAIN tdir, ti \in TestInputs, m \in Models,
          svc \in Services, lat \in Latencies :
          LET r == TestPrompt(path, tdir[path], ti, m, api_key, client, svc, lat)
          IN  /\ tcall' = [made |-> TRUE, path |-> path, test_input |-> ti,
                           model |-> m, svc |-> svc, had_client |-> client,
                           raised |-> r.raised, result |-> r.result]
              /\ client' = r.client
              /\ network' = r.sent
    /\ UNCHANGED << api_key, tdir, bmodel, bpc, bidx, results, batch >>
    /\ UNCHANGED << renderVars, loadVars >>
    /\ UNCHANGED toolVars

\* sorted(paths)
RECURSIVE SortedPaths(_)
SortedPaths(S) ==
    IF S = {} THEN << >>
    ELSE LET least == CHOOSE x \in S : \A y \in S : x <= y
         IN  << least >> \o SortedPaths(S \ {least})

RECURSIVE SumOf(_, _)
SumOf(rs, field) ==
    IF rs = << >> THEN 0 ELSE Head(rs)[field] + SumOf(Tail(rs), field)

\* sum(1 for r in results if r.passed)
RECURSIVE CountPassed(_)
CountPassed(rs) ==
    IF rs = << >> THEN 0
    ELSE (IF Head(rs).passed THEN 1 ELSE 0) + CountPassed(Tail(rs))

\* sum(...) / len(results) if results else 0, as the fraction num / den
Mean(rs, field) ==
    IF rs # << >> THEN [num |-> SumOf(rs, field), den |-> Len(rs)]
                  ELSE [num |-> 0, den |-> 1]

\* A broken count: a result counts as passed when it holds no error.
BatchTestResultNoError(rs) ==
    LET ok == Len(SelectSeq(rs, LAMBDA r : ~r.error.some))
    IN  [total |-> Len(rs), passed |-> ok, failed |-> Len(rs) - ok, results |-> rs,
         avg_quality |-> Mean(rs, "quality_score"),
         avg_latency_ms |-> Mean(rs, "latency_ms")]

\* The BatchTestResult test_batch builds from `results`.
BatchTestResult(rs) ==
    LET passed == CountPassed(rs)
    IN  [total |-> Len(rs), passed |-> passed, failed |-> Len(rs) - passed,
         results |-> rs,
         avg_quality |-> Mean(rs, "quality_score"),
         avg_latency_ms |-> Mean(rs, "latency_ms")]

NoBatch == [BatchTestResult(<< >>) EXCEPT !.total = -1]

\* The path test_batch's loop is at.
BatchPath == SortedPaths(DOMAIN tdir)[bidx]

\* One pass of test_batch's loop in which test_prompt returns a result.
BatchTest ==
    /\ bpc = "loop"
    /\ bidx <= Len(tdir)
    /\ \E svc \in BatchServices, lat \in Latencies :
          LET r == TestPrompt(BatchPath, tdir[BatchPath], NoInput,
                              bmodel, api_key, client, svc, lat)
          IN  /\ r.raised = ""
              /\ results' = Append(results, r.result)
              /\ client' = r.client
              /\ network' = network \o r.sent
    /\ bidx' = bidx + 1
    /\ UNCHANGED << api_key, tdir, tcall, bmodel, bpc, batch >>
    /\ UNCHANGED << renderVars, loadVars >>
    /\ UNCHANGED toolVars

\* A pass of the loop in which test_prompt raises: the exception leaves test_batch.
BatchAbort ==
    /\ bpc = "loop"
    /\ bidx <= Len(tdir)
    /\ \E svc \in BatchServices, lat \in Latencies :
          LET r == TestPrompt(BatchPath, tdir[BatchPath], NoInput,
                              bmodel, api_key, client, svc, lat)
          IN  /\ r.raised # ""
              /\ bpc' = "aborted"
    /\ UNCHANGED << api_key, client, tdir, tcall, network, bmodel, bidx, results, batch >>
    /\ UNCHANGED << renderVars, loadVars >>
    /\ UNCHANGED toolVars

\* The loop is over: the aggregate is built and returned.
BatchReturn ==
    /\ bpc = "loop"
    /\ bidx > Len(tdir)
    /\ batch' = BatchTestResult(results)
    /\ bpc' = "returned"
    /\ UNCHANGED << api_key, client, tdir, tcall, network, bmodel, bidx, results >>
    /\ UNCHANGED << renderVars, loadVars >>
    /\ UNCHANGED toolVars

BatchNext == BatchTest \/ BatchAbort \/ BatchReturn

\* No PromptTester has been constructed.
TestIdle ==
    /\ api_key = ""
    /\ client = FALSE
    /\ tdir = << >>
    /\ tcall = NoCall
    /\ network = << >>
    /\ bmodel = NoModel
    /\ bpc = "idle"
    /\ bidx = 1
    /\ results = << >>
    /\ batch = NoBatch

\* PromptTester(api_key): the key given, or the environment's, or neither.
TesterInit ==
    /\ api_key \in {"", "key"}
    /\ client = FALSE
    /\ tcall = NoCall
    /\ network = << >>
    /\ results = << >>
    /\ batch = NoBatch
    /\ bidx = 1

\* A tester and one record file to call test_prompt on.
TestInit ==
    /\ TesterInit
    /\ tdir \in [1..1 -> TestFiles]
    /\ bmodel = NoModel
    /\ bpc = "idle"

\* test_batch(prompts_dir, model) is entered: results = []
BatchInit ==
    /\ TesterInit
    /\ tdir \in UNION { [1..n -> TestFiles] : n \in 0..MaxBatchFiles }
    /\ bmodel \in Models
    /\ bpc = "loop"

NoScoreCall ==
    [made |-> FALSE, output |-> Empty, expected |-> << >>, missing |-> << >>,
     score |-> 0, score_full |-> 0]

NoIssues == << >>

NoValidateCall == [made |-> FALSE, file |-> Unreadable, raised |-> "", issues |-> NoIssues]

NoQuery == [op |-> "none", arg |-> << >>, result |-> << >>]

\* No static method of PromptTester and no query of the manager was called.
ToolsIdle ==
    /\ scall = NoScoreCall
    /\ vcall = NoValidateCall
    /\ qcall = NoQuery
    /\ listed = << >>

(***************************************************************************)
(* Specifications                                                          *)
(***************************************************************************)

InitRender == RenderInit /\ LoadIdle /\ TestIdle /\ ToolsIdle
InitLoad   == LoadInit /\ RenderIdle /\ TestIdle /\ ToolsIdle
InitTest   == TestInit /\ RenderIdle /\ LoadIdle /\ ToolsIdle
InitBatch  == BatchInit /\ RenderIdle /\ LoadIdle /\ ToolsIdle

\* One call of Prompt.render.
SpecRender == InitRender /\ [][RenderNext]_vars

\* One construction of a PromptManager.
SpecLoad == InitLoad /\ [][LoadNext]_vars

\* Direct calls of test_prompt on one tester.
SpecTest == InitTest /\ [][TestCall]_vars

\* One call of test_batch.
SpecBatch == InitBatch /\ [][BatchNext]_vars

Init == InitRender
Next == RenderNext
Spec == SpecRender

(***************************************************************************)
(* Properties of Prompt.render (SpecRender)                                *)
(***************************************************************************)

\* The declared parameters that are absent from kwargs, required and
\* without a default.
UnmetParams ==
    { i \in 1..Len(rec.parameters) :
        /\ rec.parameters[i].name \notin DOMAIN kwargs
        /\ rec.parameters[i].required
        /\ rec.parameters[i].default = None }

RECURSIVE Substituted(_, _, _)
Substituted(t, ps, kw) ==
    IF ps = << >> THEN t
    ELSE LET p     == Head(ps)
             token == << "{" >> \o p.name \o << "}" >>
             t1    == IF p.name \in DOMAIN kw THEN Replace(t, token, kw[p.name].s)
                      ELSE IF p.default # None THEN Replace(t, token, p.default.v.s)
                      ELSE t
         IN  Substituted(t1, Tail(ps), kw)

DeclaredNames == { rec.parameters[i].name : i \in 1..Len(rec.parameters) }

\* C2: when render succeeds its output is the template with, for each
\* declared parameter in declaration order, every {name} replaced by the
\* supplied value, else by the default, else left alone; every placeholder of
\* an undeclared name is still in the output, supplied or not.
C2_RenderSubstitutesDeclaredOnly ==
    rpc = "returned" =>
        /\ rout.text = Substituted(template0, rec.parameters, kwargs)
        /\ \A n \in Names \ DeclaredNames :
              Occurrences(rout.text, Placeholder(n))
                  >= Occurrences(template0, Placeholder(n))

\* A successful call that replaced something while the template held the
\* placeholder of an undeclared name that the substitutions had a key for.
C2_Witness ==
    /\ rpc = "returned"
    /\ rout.text # template0
    /\ \E n \in Names \ DeclaredNames :
          /\ n \in DOMAIN kwargs
          /\ Occurrences(template0, Placeholder(n)) > 0
          /\ Occurrences(rout.text, Placeholder(n)) > 0

(***************************************************************************)
(* Properties of the load (SpecLoad)                                       *)
(***************************************************************************)

\* The n-th file processed parsed into a record.
Parsed(n) == TryLoad(order[n], fs[order[n]]).ok

\* The record the n-th file processed parsed into.
RecordOf(n) == TryLoad(order[n], fs[order[n]]).prompt

\* C3: the cache holds at most one entry per name, and the entry of a name
\* is the record parsed from the last processed file that declares the name.
C3_LastLoadedWins ==
    /\ \A i, j \in 1..Len(cache) : cache[i].key = cache[j].key => i = j
    /\ \A i \in 1..Len(cache) :
          LET from == { n \in 1..Len(order) :
                          Parsed(n) /\ RecordOf(n).name = cache[i].key }
          IN  \E n \in from :
                /\ \A m \in from : m <= n
                /\ cache[i].value = RecordOf(n)
                /\ cache[i].value.file_path = order[n]

\* A finished load in which two files declared the same name.
C3_Witness ==
    /\ lpc = "done"
    /\ \E n, m \in 1..Len(order) :
          /\ n < m
          /\ Parsed(n) /\ Parsed(m)
          /\ RecordOf(n).name = RecordOf(m).name
          /\ \E i \in 1..Len(cache) : cache[i].value.file_path = order[m]

\* C4: no file aborts the load: every unparseable file is skipped, every
\* parseable file processed so far has its name in the cache, every file is
\* processed, and a load of a root that does not exist ends with an empty cache.
C4_LoadNeverAborts ==
    /\ lpc # "aborted"
    /\ \A n \in 1..Len(order) : Parsed(n) => RecordOf(n).name \in Keys(cache)
    /\ \A i \in 1..Len(cache) :
          \E n \in 1..Len(order) : Parsed(n) /\ RecordOf(n).name = cache[i].key
    /\ lpc = "done" /\ rootExists =>
          { order[n] : n \in 1..Len(order) } = DOMAIN fs
    /\ lpc = "done" /\ ~rootExists => cache = << >>

\* A finished load that met an unparseable file between two parseable ones.
C4_Witness ==
    /\ lpc = "done"
    /\ Len(order) = 3
    /\ Parsed(1) /\ ~Parsed(2) /\ Parsed(3)
    /\ RecordOf(1).name # RecordOf(3).name
    /\ Len(cache) = 2

\* C5: every cached record has a template that is non-empty after trimming,
\* a non-empty recommended model and expected_tokens > 0.
C5_LoadedRecordsWellFormed ==
    \A i \in 1..Len(cache) :
        /\ ~StripEmpty(cache[i].value.template.s)
        /\ cache[i].value.metadata.recommended_model.s # Empty
        /\ cache[i].value.metadata.expected_tokens > 0

(***************************************************************************)
(* Properties of test_prompt (SpecTest)                                    *)
(***************************************************************************)

\* The last direct call returned the result of a successful service call.
ServiceSucceeded ==
    /\ tcall.made
    /\ tcall.raised = ""
    /\ ~tcall.result.error.some

\* The first Example of the file the last direct call tested, if it has one.
FirstExampleKeywords ==
    LET f == tdir[tcall.path]
    IN  IF "examples" \in f.has /\ f.examples # << >>
           /\ "expected_output_contains" \in f.examples[1].has
        THEN f.examples[1].expected_output_contains
        ELSE << >>

\* C6: in the result of a successful service call the expected keywords are
\* the first Example's only when no test input was supplied; a supplied test
\* input, the empty mapping included, is the input rendered with and leaves
\* the expected keywords empty.
C6_ExplicitInputNeverInheritsKeywords ==
    ServiceSucceeded =>
        /\ ~tcall.test_input.some =>
              tcall.result.expected_contains = FirstExampleKeywords
        /\ tcall.test_input.some =>
              /\ tcall.result.test_input = tcall.test_input.v
              /\ tcall.result.expected_contains = << >>

\* The generation request of the last direct call was sent and failed.
ServiceFailed ==
    /\ tcall.made
    /\ network # << >>
    /\ tcall.svc.kind = "error"

\* C7: when the generation call fails, test_prompt returns (nothing is
\* raised) a result with quality 0, latency 0, token count 0, passed false
\* and the failure's description as its error.
C7_ServiceFailureBecomesResult ==
    ServiceFailed =>
        /\ tcall.raised = ""
        /\ tcall.result.quality_score = 0
        /\ tcall.result.latency_ms = 0
        /\ tcall.result.token_count = 0
        /\ tcall.result.passed = FALSE
        /\ tcall.result.error = [some |-> TRUE, v |-> tcall.svc.error]

\* A call whose request was sent and failed with a quota error.
C7_Witness ==
    /\ ServiceFailed
    /\ tcall.svc.error = "429 quota exceeded"
    /\ tcall.result.error.some

\* The last direct call got as far as asking for the client, on a tester
\* that has no key and no client yet.
AskedWithoutCredential ==
    /\ tcall.made
    /\ api_key = ""
    /\ ~tcall.had_client
    /\ tcall.raised \notin {"OSError", "YAMLError", "AttributeError", "TypeError"}

\* C8 as stated: without a credential the error is raised to the caller,
\* before any request is sent.
C8_MissingCredentialRaised ==
    AskedWithoutCredential =>
        /\ tcall.raised = "ValueError"
        /\ network = << >>

\* C8 amended: without a credential _get_client raises before any request is
\* sent, and test_prompt turns the error into a failed result: nothing is
\* raised to the caller, no request is sent, and the result holds the
\* message, quality 0, latency 0, token count 0 and passed false.
C8_MissingCredentialCaptured ==
    AskedWithoutCredential =>
        /\ tcall.raised = ""
        /\ network = << >>
        /\ client = FALSE
        /\ tcall.result.error = [some |-> TRUE, v |-> KeyNotSet]
        /\ tcall.result.passed = FALSE
        /\ tcall.result.quality_score = 0
        /\ tcall.result.latency_ms = 0
        /\ tcall.result.token_count = 0

\* A call on a readable record, made without a credential.
C8_Witness ==
    /\ AskedWithoutCredential
    /\ tcall.result.error.some
    /\ tcall.result.prompt_name = NameFoo

(***************************************************************************)
(* Properties of test_batch (SpecBatch)                                    *)
(***************************************************************************)

\* C9: a batch run is never aborted by one record: whatever goes wrong while
\* a record is tested ends in that record's result, and the records after it
\* are tested too.
C9_BatchNeverAborts ==
    /\ bpc # "aborted"
    /\ bpc = "returned" => Len(batch.results) = Len(tdir)

\* C10: a batch run that returns holds one result per record file, in sorted
\* path order, each test finished before the next began; total is the number
\* of results, passed the number of passed results, failed the rest, and the
\* two means are taken over all results, 0 when there is none.
C10_BatchAggregates ==
    /\ bpc = "loop" => Len(results) = bidx - 1
    /\ \A i, j \in 1..Len(network) : i < j => network[i].from < network[j].from
    /\ bpc = "returned" =>
          LET rs == batch.results
              n  == Len(rs)
              quality[i \in 0..n] ==
                  IF i = 0 THEN 0 ELSE quality[i - 1] + rs[i].quality_score
              latency[i \in 0..n] ==
                  IF i = 0 THEN 0 ELSE latency[i - 1] + rs[i].latency_ms
          IN  /\ n = Len(tdir)
              /\ \A i \in 1..n :
                    rs[i].prompt_name =
                        IF "name" \in tdir[i].has THEN tdir[i].name ELSE Stem(i)
              /\ batch.total = n
              /\ batch.passed = Cardinality({ i \in 1..n : rs[i].passed })
              /\ batch.failed = batch.total - batch.passed
              /\ batch.avg_quality.den # 0
              /\ batch.avg_latency_ms.den # 0
              /\ batch.avg_quality.num = quality[n]
              /\ batch.avg_latency_ms.num = latency[n]
              /\ n > 0 => batch.avg_quality.den = n /\ batch.avg_latency_ms.den = n
              /\ n = 0 => batch.avg_quality.num = 0 /\ batch.avg_latency_ms.num = 0

\* A returned batch of two records, one passed, one failed for a missing
\* keyword, both answered by the service.
C10_Witness ==
    /\ bpc = "returned"
    /\ batch.total = 2
    /\ batch.passed = 1
    /\ batch.failed = 1
    /\ Len(network) = 2
    /\ \E i \in 1..2 : ~batch.results[i].passed /\ ~batch.results[i].error.some

(***************************************************************************)
(* PromptTester._score_quality called on its own (SpecScore)               *)
(***************************************************************************)

MaxMissing == 3

\* n expected keywords
ExpectedOfLen(n) == [i \in 1..n |-> IF i % 2 = 1 THEN KwK ELSE KwT]

\* The lengths for which the keyword bonus is exact in quarter points.
ExpectedLists == { ExpectedOfLen(n) : n \in {0, 1, 2, 3, 4, 6} }

MissingLists == UNION { [1..n -> {KwK, KwT}] : n \in 0..MaxMissing }

ScoreOutputs ==
    { Empty,
      << " ", "\n" >>,
      << "K" >>,
      << "-", " ", "t", " ", "K" >>,
      Words(50),
      Words(50) \o << "1", "." >>,
      Words(200),
      Words(200) \o << "#", "#", " ", "T", "k" >> }

\* The arguments of the call to come.
ScoreInit ==
    scall \in { [NoScoreCall EXCEPT !.output = o, !.expected = e, !.missing = m] :
                  o \in ScoreOutputs, e \in ExpectedLists, m \in MissingLists }

\* _score_quality(output, expected, missing), and beside it the score of the
\* same output and expected list with no keyword missing.
ScoreCall ==
    /\ ~scall.made
    /\ scall' = [scall EXCEPT
                   !.made = TRUE,
                   !.score = ScoreQuality(scall.output, scall.expected, scall.missing),
                   !.score_full = ScoreQuality(scall.output, scall.expected, << >>)]
    /\ UNCHANGED << vcall, qcall, listed >>
    /\ UNCHANGED << renderVars, loadVars, testVars >>

InitScore ==
    /\ ScoreInit
    /\ vcall = NoValidateCall /\ qcall = NoQuery /\ listed = << >>
    /\ RenderIdle /\ LoadIdle /\ TestIdle

SpecScore == InitScore /\ [][ScoreCall]_vars

\* The output of the scored call is empty or whitespace only.
ScoredBlank == \A i \in 1..Len(scall.output) : scall.output[i] \in {" ", "\n"}

\* C11 as stated: for a fixed output and a fixed non-empty expected list the
\* score with no keyword missing is strictly higher than the score with at
\* least one missing, also at the 10.0 clamp and for an empty output.
C11_FullMatchScoresHigher ==
    scall.made /\ scall.expected # << >> /\ scall.missing # << >> =>
        scall.score_full > scall.score

\* C11 amended: for a fixed output that is not empty after trimming and a
\* fixed non-empty expected list the score with no keyword missing is
\* strictly higher than the score with at least one missing, also at the
\* 10.0 clamp; for an empty or whitespace-only output both scores are 0.
C11_FullMatchScoresHigherUnlessBlank ==
    scall.made /\ scall.expected # << >> /\ scall.missing # << >> =>
        IF ScoredBlank
        THEN scall.score_full = 0 /\ scall.score = 0
        ELSE scall.score_full > scall.score

\* An output with every bonus: the full score sits at the clamp, the score
\* with one keyword missing below it.
C11_Witness ==
    /\ scall.made
    /\ scall.expected # << >>
    /\ Len(scall.missing) = 1
    /\ scall.score_full = Score(10, 0)
    /\ scall.score < Score(10, 0)

NoneVal == [t |-> "none", s |-> << "N", "o", "n", "e" >>]

\* An issue string: its wording, and the field or the position it names.
Issue(k, f, i) == [kind |-> k, field |-> f, index |-> i]

InvalidYamlIssue     == Issue("Invalid YAML", "", 0)
RootNotMappingIssue  == Issue("Root element must be a mapping", "", 0)
MissingFieldIssue(f) == Issue("Missing required field", f, 0)
TemplateEmptyIssue   == Issue("Template is empty", "", 0)
ParamNoNameIssue(i)  == Issue("Parameter missing 'name'", "", i)

RequiredFields == << "name", "template", "category" >>

\* enumerate(data["parameters"]): the 0-based positions of the entries
\* without a name, in order
UnnamedPositions(ps) ==
    LET positions == [i \in 1..Len(ps) |-> i - 1]
    IN  SelectSeq(positions, LAMBDA i : "name" \notin ps[i + 1].has)

\* validate_prompt_format(path) on file f: the issues it returns, or the
\* exception it raises.
Validate(f) ==
    IF f.kind \in {"unreadable", "invalid_yaml"}
    THEN [raised |-> "", issues |-> << InvalidYamlIssue >>]
    ELSE IF f.kind # "mapping"
    THEN [raised |-> "", issues |-> << RootNotMappingIssue >>]
    ELSE
    LET absent   == SelectSeq(RequiredFields, LAMBDA k : k \notin f.has)
        fields   == [i \in 1..Len(absent) |-> MissingFieldIssue(absent[i])]
        unnamed  == IF "parameters" \in f.has THEN UnnamedPositions(f.parameters)
                                              ELSE << >>
        params   == [i \in 1..Len(unnamed) |-> ParamNoNameIssue(unnamed[i])]
    IN  IF "template" \in f.has /\ f.template.t # "str"
        THEN [raised |-> "AttributeError", issues |-> NoIssues]
        ELSE [raised |-> "",
              issues |-> fields
                         \o (IF "template" \in f.has /\ StripEmpty(f.template.s)
                             THEN << TemplateEmptyIssue >> ELSE << >>)
                         \o params]

\* ---- the files the model validates ----

MaxRawParams == 2

ValidateTemplates == { TemplateA, Blank, StrVal(Empty), IntVal(<< "7" >>), NoneVal }

ValidateFiles ==
    { Unreadable, InvalidYaml, NotMapping }
    \cup { RawMapping(h, NameFoo, t, CatS, ps, GoodMeta, << >>) :
             h \in SUBSET {"name", "template", "category", "parameters"},
             t \in ValidateTemplates,
             ps \in UNION { [1..n -> {NamedParam, UnnamedParam}] : n \in 0..MaxRawParams } }

\* The file of the call to come.
ValidateInit == vcall \in { [NoValidateCall EXCEPT !.file = f] : f \in ValidateFiles }

\* PromptTester.validate_prompt_format(path), start to end.
ValidateCall ==
    /\ ~vcall.made
    /\ vcall' = [vcall EXCEPT !.made = TRUE,
                              !.raised = Validate(vcall.file).raised,
                              !.issues = Validate(vcall.file).issues]
    /\ UNCHANGED << scall, qcall, listed >>
    /\ UNCHANGED << renderVars, loadVars, testVars >>

InitValidate ==
    /\ ValidateInit
    /\ scall = NoScoreCall /\ qcall = NoQuery /\ listed = << >>
    /\ RenderIdle /\ LoadIdle /\ TestIdle

SpecValidate == InitValidate /\ [][ValidateCall]_vars

\* The issues the claim lists for a top-level mapping f, in its order: the
\* missing fields among name, template, category; the template that is
\* present without non-whitespace content; the parameters without a name.
RECURSIVE UnnamedFrom(_, _)
UnnamedFrom(ps, i) ==
    IF i > Len(ps) THEN << >>
    ELSE (IF "name" \in ps[i].has THEN << >>
          ELSE << [kind |-> "Parameter missing 'name'", field |-> "", index |-> i - 1] >>)
         \o UnnamedFrom(ps, i + 1)

IssuesClaimed(f) ==
    (IF "name" \in f.has THEN << >>
     ELSE << [kind |-> "Missing required field", field |-> "name", index |-> 0] >>)
    \o (IF "template" \in f.has THEN << >>
        ELSE << [kind |-> "Missing required field", field |-> "template", index |-> 0] >>)
    \o (IF "category" \in f.has THEN << >>
        ELSE << [kind |-> "Missing required field", field |-> "category", index |-> 0] >>)
    \o (IF /\ "template" \in f.has
           /\ \/ f.template.t = "none"
              \/ f.template.t = "str"
                 /\ \A i \in 1..Len(f.template.s) : f.template.s[i] \in {" ", "\n"}
        THEN << [kind |-> "Template is empty", field |-> "", index |-> 0] >>
        ELSE << >>)
    \o (IF "parameters" \in f.has THEN UnnamedFrom(f.parameters, 1) ELSE << >>)

\* C13: validate_format never fails, whatever the raw record: it returns a
\* single issue when the input is no top-level mapping, and otherwise the
\* missing fields among name, template, category, then the issue of a
\* template that is present without non-whitespace content (whatever its
\* value), then one issue per parameters entry without a name, by position.
C13_ValidateReturnsIssues ==
    vcall.made =>
        /\ vcall.raised = ""
        /\ vcall.file.kind # "mapping" => Len(vcall.issues) = 1
        /\ vcall.file.kind = "mapping" /\ vcall.file.template.t \in {"str", "none"} =>
              vcall.issues = IssuesClaimed(vcall.file)

(***************************************************************************)
(* PromptManager queries (SpecQuery)                                       *)
(***************************************************************************)

\* ord(c) for the characters of names and categories.
Ord(c) ==
    CASE c = "K" -> 75  [] c = "T" -> 84  [] c = "a" -> 97  [] c = "b" -> 98
      [] c = "f" -> 102 [] c = "k" -> 107 [] c = "m" -> 109 [] c = "r" -> 114
      [] c = "s" -> 115 [] c = "t" -> 116 [] c = "u" -> 117 [] OTHER -> 0

\* a < b on str: the first differing character decides, a proper prefix is less
StrLess(a, b) ==
    \E i \in 1..(Len(b)) :
        /\ \A j \in 1..(i - 1) : j <= Len(a) /\ a[j] = b[j]
        /\ \/ i = Len(a) + 1
           \/ i <= Len(a) /\ Ord(a[i]) < Ord(b[i])

\* (p.category, p.name) < (q.category, q.name) on tuples
KeyLess(p, q) ==
    \/ StrLess(p.category.s, q.category.s)
    \/ p.category.s = q.category.s /\ StrLess(p.name.s, q.name.s)

\* key=lambda p: p.name, in place of the pair
NameLess(p, q) == StrLess(p.name.s, q.name.s)

\* self._cache.values(): the records in insertion order
Values(d) == [i \in 1..Len(d) |-> d[i].value]

\* One step of a stable sort: p goes before the first element greater than it.
InsertByName(sorted, p) ==
    LET k == IF \E i \in 1..Len(sorted) : NameLess(p, sorted[i])
             THEN (CHOOSE i \in 1..Len(sorted) :
                      /\ NameLess(p, sorted[i])
                      /\ \A j \in 1..(i - 1) : ~NameLess(p, sorted[j])) - 1
             ELSE Len(sorted)
    IN  SubSeq(sorted, 1, k) \o << p >> \o SubSeq(sorted, k + 1, Len(sorted))

InsertByKey(sorted, p) ==
    LET k == IF \E i \in 1..Len(sorted) : KeyLess(p, sorted[i])
             THEN (CHOOSE i \in 1..Len(sorted) :
                      /\ KeyLess(p, sorted[i])
                      /\ \A j \in 1..(i - 1) : ~KeyLess(p, sorted[j])) - 1
             ELSE Len(sorted)
    IN  SubSeq(sorted, 1, k) \o << p >> \o SubSeq(sorted, k + 1, Len(sorted))

RECURSIVE SortedByName(_)
SortedByName(ps) ==
    IF ps = << >> THEN << >>
    ELSE InsertByName(SortedByName(SubSeq(ps, 1, Len(ps) - 1)), ps[Len(ps)])

\* sorted(ps, key=lambda p: (p.category, p.name))
RECURSIVE SortedByKey(_)
SortedByKey(ps) ==
    IF ps = << >> THEN << >>
    ELSE InsertByKey(SortedByKey(SubSeq(ps, 1, Len(ps) - 1)), ps[Len(ps)])

\* list_prompts sorting by name alone.
ListPromptsByName(c) == SortedByName(Values(c))

\* list_prompts()
ListPrompts(c) == SortedByKey(Values(c))

\* get_prompt(name): self._cache.get(name)
GetPrompt(c, name) ==
    IF name \in Keys(c)
    THEN Some(c[CHOOSE i \in 1..Len(c) : c[i].key = name].value)
    ELSE None

\* get_by_category(category)
GetByCategory(c, category) ==
    SelectSeq(Values(c), LAMBDA p : p.category = category)

\* sorted(S) on a set of str
RECURSIVE SortedStrs(_)
SortedStrs(S) ==
    IF S = {} THEN << >>
    ELSE LET least == CHOOSE x \in S : \A y \in S : ~StrLess(y.s, x.s)
         IN  << least >> \o SortedStrs(S \ {least})

\* get_categories()
GetCategories(c) == SortedStrs({c[i].value.category : i \in 1..Len(c)})

\* any(query_lower in tag.lower() for tag in tags)
AnyTag(tags, q) == \E i \in 1..Len(tags) : Contains(Lower(tags[i].s), q)

\* search(query)
Search(c, query) ==
    LET query_lower == Lower(query)
    IN  SelectSeq(Values(c),
                  LAMBDA p : \/ Contains(Lower(p.name.s), query_lower)
                             \/ Contains(Lower(p.description.s), query_lower)
                             \/ AnyTag(p.metadata.tags, query_lower))

\* get_stats(); models_used is a list in the order of a set, kept as the set
GetStats(c) ==
    LET prompts    == ListPrompts(c)
        categories == GetCategories(c)
    IN  [total_prompts   |-> Len(prompts),
         categories      |-> Len(categories),
         category_counts |-> [i \in 1..Len(categories) |->
                                 Item(categories[i],
                                      Len(GetByCategory(c, categories[i])))],
         models_used     |-> {prompts[i].metadata.recommended_model :
                                 i \in 1..Len(prompts)}]

\* Prompt.render(**kw) from parameter i on, start to end.
RECURSIVE RenderFrom(_, _, _, _)
RenderFrom(t, params, i, kw) ==
    IF i > Len(params) THEN Returned(t)
    ELSE IF MissingRequired(params[i], kw) THEN ValueErrorMissing(params[i].name)
    ELSE RenderFrom(ParamText(t, params[i], kw), params, i + 1, kw)

Render(p, kw) == RenderFrom(p.template.s, p.parameters, 1, kw)

Query(op, arg, result) == [op |-> op, arg |-> arg, result |-> result]

\* ---- the libraries and the queries the model explores ----

MaxQueryFiles == 2
MaxLists == 2

NameUpper == StrVal(<< "K" >>)
CatB      == StrVal(<< "b" >>)
TagT      == StrVal(<< "T" >>)

TaggedMeta == [RawMeta({"recommended_model", "tags"}, StrVal(<< "m" >>), 100)
                  EXCEPT !.tags = << TagT >>]

QueryFiles ==
    { NotMapping,
      [RawMapping(AllKeys \cup {"description"}, NameFoo, TemplateA, CatS,
                  << NamedParam >>, GoodMeta, << >>)
          EXCEPT !.description = StrVal(<< "K" >>)],
      RawMapping(AllKeys, NameBar, TemplateA, CatB, << >>, TaggedMeta, << >>),
      RawMapping({"name", "category"}, NameUpper, TemplateA, CatS, << >>, GoodMeta, << >>),
      RawMapping({"name", "category"}, NameFoo, TemplateA, CatB, << >>, GoodMeta, << >>) }

QueryNames      == { NameFoo, NameUpper }
QueryCategories == { CatS, CatB }
QueryStrings    == { << "K" >>, << "t" >> }
QueryKwargs     == { << >>, [n \in {NameA} |-> StrVal(<< "v" >>)] }

\* PromptManager(prompts_dir) is being constructed.
QueryInit ==
    /\ rootExists \in BOOLEAN
    /\ fs \in IF rootExists
              THEN UNION { [1..n -> QueryFiles] : n \in 0..MaxQueryFiles }
              ELSE { << >> }
    /\ pending = {}
    /\ order = << >>
    /\ cache = << >>
    /\ lpc = "start"

\* The queries other than list_prompts.
OtherQueries == {"get_prompt", "get_by_category", "get_categories", "search",
                 "get_stats", "render"}

\* What every query leaves alone.
QueryFrame ==
    /\ UNCHANGED << scall, vcall >>
    /\ UNCHANGED << renderVars, loadVars, testVars >>

\* manager.list_prompts()
ListPromptsCall ==
    /\ lpc = "done"
    /\ Len(listed) < MaxLists
    /\ qcall' = Query("list_prompts", << >>, ListPrompts(cache))
    /\ listed' = Append(listed, [queried |-> qcall.op \in OtherQueries,
                                  prompts |-> ListPrompts(cache)])
    /\ QueryFrame

\* manager.get_prompt(name)
GetPromptCall ==
    /\ lpc = "done"
    /\ \E name \in QueryNames :
          qcall' = Query("get_prompt", name, GetPrompt(cache, name))
    /\ UNCHANGED listed
    /\ QueryFrame

\* manager.get_by_category(category)
GetByCategoryCall ==
    /\ lpc = "done"
    /\ \E category \in QueryCategories :
          qcall' = Query("get_by_category", category, GetByCategory(cache, category))
    /\ UNCHANGED listed
    /\ QueryFrame

\* manager.get_categories()
GetCategoriesCall ==
    /\ lpc = "done"
    /\ qcall' = Query("get_categories", << >>, GetCategories(cache))
    /\ UNCHANGED listed
    /\ QueryFrame

\* manager.search(query)
SearchCall ==
    /\ lpc = "done"
    /\ \E query \in QueryStrings :
          qcall' = Query("search", query, Search(cache, query))
    /\ UNCHANGED listed
    /\ QueryFrame

\* manager.get_stats()
GetStatsCall ==
    /\ lpc = "done"
    /\ qcall' = Query("get_stats", << >>, GetStats(cache))
    /\ UNCHANGED listed
    /\ QueryFrame

\* manager.get_prompt(name).render(**kw) on a record of the cache
RenderCall ==
    /\ lpc = "done"
    /\ \E i \in 1..Len(cache), kw \in QueryKwargs :
          qcall' = Query("render", cache[i].key, Render(cache[i].value, kw))
    /\ UNCHANGED listed
    /\ QueryFrame

QueryNext ==
    \/ LoadNext
    \/ ListPromptsCall \/ GetPromptCall \/ GetByCategoryCall \/ GetCategoriesCall
    \/ SearchCall \/ GetStatsCall \/ RenderCall

InitQuery ==
    /\ QueryInit
    /\ RenderIdle /\ TestIdle /\ ToolsIdle

\* One manager: its construction, then queries in any order.
SpecQuery == InitQuery /\ [][QueryNext]_vars

\* L holds every record of the cache exactly once.
EachCachedOnce(L) ==
    /\ Len(L) = Len(cache)
    /\ \A i \in 1..Len(cache) :
          Cardinality({j \in 1..Len(L) : L[j] = cache[i].value}) = 1

\* L ascends by category, and by name within a category.
Ascending(L) ==
    \A j \in 1..Len(L), k \in 1..Len(L) :
        j < k =>
            \/ StrLess(L[j].category.s, L[k].category.s)
            \/ L[j].category = L[k].category /\ StrLess(L[j].name.s, L[k].name.s)

ListsRight ==
    \A n \in 1..Len(listed) :
        /\ EachCachedOnce(listed[n].prompts)
        /\ Ascending(listed[n].prompts)
        /\ listed[n].prompts = listed[1].prompts

====
